---- MODULE Spec2Model ----
(***************************************************************************)
(* A model of dns_r: the DNS header serializer, the label-sequence         *)
(* encoder and the question serializer of src/src/dns.rs, the copies of    *)
(* the header serializer and the label encoder in src/src/main.rs, and the *)
(* single bind / receive / serialize / send run of main().                 *)
(*                                                                         *)
(* Bytes are naturals in 0..255, byte vectors and Rust Strings (ASCII      *)
(* only) are sequences of bytes.                                           *)
(***************************************************************************)
EXTENDS Naturals, Sequences, FiniteSets, TLC

\* ------------------------------------------------------------------------
\* Bounds of the model
\* ------------------------------------------------------------------------
\* opcode and response_code are enumerated from 0 up to these (and U8Max)
MaxOpcode == 17
MaxRcode == 17
\* dotted names: every string over Alphabet of at most this many bytes
MaxNameLen == 4
\* how often one serializer / encoder is called on the same value
MaxCalls == 2
\* datagrams the clients send during one run, and their payload length
MaxDatagrams == 2
MaxDgramLen == 1

\* ------------------------------------------------------------------------
\* Fixed-width integers
\* ------------------------------------------------------------------------
\* u8::MAX and u16::MAX: the widths of the header's fields
U8Max == 255
U16Max == 65535

RECURSIVE Pow2(_)
Pow2(n) == IF n = 0 THEN 1 ELSE 2 * Pow2(n - 1)

\* `b as u8` for a bool
BoolAsU8(b) == IF b THEN 1 ELSE 0

\* `x << n` on u8 with n < 8: the bits shifted past bit 7 are dropped
Shl8(x, n) == (x * Pow2(n)) % (U8Max + 1)

\* `a | b` on u8
RECURSIVE BitOr(_, _)
BitOr(a, b) ==
    IF a = 0 THEN b
    ELSE IF b = 0 THEN a
    ELSE (IF a % 2 = 1 \/ b % 2 = 1 THEN 1 ELSE 0) + 2 * BitOr(a \div 2, b \div 2)

\* u16::to_be_bytes
U16ToBeBytes(x) == << x \div (U8Max + 1), x % (U8Max + 1) >>

\* ------------------------------------------------------------------------
\* DnsHeader
\* ------------------------------------------------------------------------
DNS_HEADER_LEN == 12

\* DnsHeader::new()
DnsHeader_new ==
    [ id |-> 0,
      query_indicator |-> FALSE, opcode |-> 0, authoritative_answer |-> FALSE,
      truncation |-> FALSE, recursion_desired |-> FALSE,
      recursion_available |-> FALSE, reserved |-> FALSE,
      authentic_data |-> FALSE, check_disabled |-> FALSE, response_code |-> 0,
      question_count |-> 0, answer_record_count |-> 0,
      authority_record_count |-> 0, additional_record_count |-> 0 ]

\* the first flags byte, as pushed by serialize_to_bytes
HeaderFlagsHi(h) ==
    BitOr(BitOr(BitOr(BitOr(Shl8(BoolAsU8(h.query_indicator), 7),
                            Shl8(h.opcode, 3)),
                      Shl8(BoolAsU8(h.authoritative_answer), 2)),
                Shl8(BoolAsU8(h.truncation), 1)),
          BoolAsU8(h.recursion_desired))

\* the second flags byte, as pushed by serialize_to_bytes
HeaderFlagsLo(h) ==
    BitOr(BitOr(BitOr(BitOr(Shl8(BoolAsU8(h.recursion_available), 7),
                            Shl8(BoolAsU8(h.reserved), 6)),
                      Shl8(BoolAsU8(h.authentic_data), 5)),
                Shl8(BoolAsU8(h.check_disabled), 4)),
          h.response_code)

\* a faulty variant of serialize_to_bytes: the opcode shifted by 4, not by 3
DnsHeader_serialize_shift4(h) ==
    U16ToBeBytes(h.id)
    \o << BitOr(BitOr(BitOr(BitOr(Shl8(BoolAsU8(h.query_indicator), 7),
                                  Shl8(h.opcode, 4)),
                            Shl8(BoolAsU8(h.authoritative_answer), 2)),
                      Shl8(BoolAsU8(h.truncation), 1)),
                BoolAsU8(h.recursion_desired)) >>
    \o << HeaderFlagsLo(h) >>
    \o U16ToBeBytes(h.question_count)
    \o U16ToBeBytes(h.answer_record_count)
    \o U16ToBeBytes(h.authority_record_count)
    \o U16ToBeBytes(h.additional_record_count)

\* DnsHeader::serialize_to_bytes (the same text in dns.rs and main.rs)
DnsHeader_serialize_to_bytes(h) ==
    U16ToBeBytes(h.id)
    \o << HeaderFlagsHi(h) >>
    \o << HeaderFlagsLo(h) >>
    \o U16ToBeBytes(h.question_count)
    \o U16ToBeBytes(h.answer_record_count)
    \o U16ToBeBytes(h.authority_record_count)
    \o U16ToBeBytes(h.additional_record_count)

\* ------------------------------------------------------------------------
\* Strings
\* ------------------------------------------------------------------------
\* ASCII codes of the characters the encoders write or split on
Dot == 46
Backslash == 92
LowerX == 120
Zero == 48
LowerA == 97

\* one lower-case hexadecimal digit
HexChar(d) == IF d < 10 THEN Zero + d ELSE LowerA + (d - 10)

\* format!("{:x}", n)
RECURSIVE FormatHex(_)
FormatHex(n) ==
    IF n < 16 THEN << HexChar(n) >>
    ELSE FormatHex(n \div 16) \o << HexChar(n % 16) >>

\* format!("{:02x}", n): zero-padded to a width of at least 2
FormatHex02(n) == IF n < 16 THEN << Zero >> \o FormatHex(n) ELSE FormatHex(n)

\* str::split('.'): the pieces between the dots, empty pieces kept
RECURSIVE SplitDot(_)
SplitDot(s) ==
    IF \A i \in 1..Len(s) : s[i] # Dot THEN << s >>
    ELSE LET k == CHOOSE i \in 1..Len(s) :
                      s[i] = Dot /\ \A j \in 1..(i - 1) : s[j] # Dot
         IN  << SubSeq(s, 1, k - 1) >> \o SplitDot(SubSeq(s, k + 1, Len(s)))

\* ------------------------------------------------------------------------
\* ResourceRecord and QuestionSection of dns.rs
\* ------------------------------------------------------------------------
\* ResourceRecord::new()
ResourceRecord_new ==
    [ name |-> << >>, record_type |-> 1, class |-> 0, ttl |-> 0,
      record_data_length |-> 0, record_data |-> << >> ]

\* QuestionSection::new()
QuestionSection_new == [ resource_record |-> ResourceRecord_new ]

\* the loop of to_label_sequence over the split labels, from label i on
RECURSIVE LabelLoop(_, _)
LabelLoop(labels, i) ==
    IF i > Len(labels) THEN << >>
    ELSE << Backslash, LowerX >> \o FormatHex02(Len(labels[i])) \o labels[i]
         \o LabelLoop(labels, i + 1)

\* QuestionSection::to_label_sequence of dns.rs
QuestionSection_to_label_sequence(q) ==
    LabelLoop(SplitDot(q.resource_record.name), 1)
    \o << Backslash, LowerX, Zero, Zero >>

\* QuestionSection::serialize_to_bytes of dns.rs
QuestionSection_serialize_to_bytes(q) ==
    q.resource_record.name
    \o U16ToBeBytes(q.resource_record.record_type)
    \o U16ToBeBytes(q.resource_record.class)

\* ------------------------------------------------------------------------
\* QuestionSection of main.rs
\* ------------------------------------------------------------------------
\* QuestionSection::new() of main.rs
MainQuestionSection_new == [ name |-> << >>, record_type |-> 0 ]

\* the loop of main.rs's to_label_sequence: the length is not zero-padded
RECURSIVE MainLabelLoop(_, _)
MainLabelLoop(labels, i) ==
    IF i > Len(labels) THEN << >>
    ELSE << Backslash, LowerX >> \o FormatHex(Len(labels[i])) \o labels[i]
         \o MainLabelLoop(labels, i + 1)

\* QuestionSection::to_label_sequence of main.rs: takes the record by value
MainQuestionSection_to_label_sequence(q) ==
    MainLabelLoop(SplitDot(q.name), 1) \o << Backslash, LowerX, Zero, Zero >>

\* ------------------------------------------------------------------------
\* State
\* ------------------------------------------------------------------------
VARIABLES
    \* which part runs: "header" or "question" (the codecs), "main" (main())
    mode,
    \* a DnsHeader, the Vec its last serialize_to_bytes returned, the Vec the
    \* call before returned, and the number of calls
    hdr, hdr_out, hdr_prev, n_ser,
    \* the dotted domain name the question was built from
    domain,
    \* a dns.rs QuestionSection; the String its last to_label_sequence
    \* returned, the String the call before returned, the number of calls and
    \* how the last call ended; whether the caller has stored the label
    \* sequence in the name; the Vec of serialize_to_bytes and whether it ran
    q, label_out, label_prev, n_label, label_status, labelled, q_bytes, q_done,
    \* a main.rs QuestionSection, whether it is still owned by the caller (not
    \* moved into to_label_sequence), and the String that call returned
    mq, mq_alive, m_label_out,
    \* main(): the position in main, how the process ended, the socket's
    \* queue of datagrams, the number of datagrams the clients sent
    pc, exit, inbox, n_client,
    \* main()'s locals
    recv_buffer, number_of_bytes, source_address,
    default_response, question, serialized_response,
    \* the datagrams the process sent, and the bind / recv_from / send_to calls
    outbox, binds, recvs, sends

codecVars == << mode, hdr, hdr_out, hdr_prev, n_ser, domain, q, label_out,
                label_prev, n_label, label_status, labelled, q_bytes, q_done,
                mq, mq_alive, m_label_out >>
mainVars == << pc, exit, inbox, n_client, recv_buffer, number_of_bytes,
               source_address, default_response, question,
               serialized_response, outbox, binds, recvs, sends >>
vars == << codecVars, mainVars >>

\* ------------------------------------------------------------------------
\* Inputs
\* ------------------------------------------------------------------------
Bools == { TRUE, FALSE }
OpcodeVals == (0..MaxOpcode) \cup { U8Max }
RcodeVals == (0..MaxRcode) \cup { U8Max }
U16Vals == { 0, 1, 255, 256, 1234, U16Max }
CountVals == { 0, 1, 258, U16Max }

\* headers that differ from DnsHeader::new() in the fields of one flags byte
HeadersHi ==
    { [ DnsHeader_new EXCEPT !.query_indicator = qr, !.opcode = op,
                             !.authoritative_answer = aa, !.truncation = tc,
                             !.recursion_desired = rd ] :
      qr \in Bools, op \in OpcodeVals, aa \in Bools, tc \in Bools, rd \in Bools }
HeadersLo ==
    { [ DnsHeader_new EXCEPT !.recursion_available = ra, !.reserved = z,
                             !.authentic_data = ad, !.check_disabled = cd,
                             !.response_code = rc ] :
      ra \in Bools, z \in Bools, ad \in Bools, cd \in Bools, rc \in RcodeVals }
\* every combination of the nine flags, around the header main() builds
HeadersFlags ==
    { [ id |-> 1234,
        query_indicator |-> f[1], opcode |-> op, authoritative_answer |-> f[2],
        truncation |-> f[3], recursion_desired |-> f[4],
        recursion_available |-> f[5], reserved |-> f[6],
        authentic_data |-> f[7], check_disabled |-> f[8], response_code |-> rc,
        question_count |-> 1, answer_record_count |-> 0,
        authority_record_count |-> 0, additional_record_count |-> 0 ] :
      f \in [1..8 -> Bools], op \in { 0, 10, MaxOpcode }, rc \in { 0, 5, MaxRcode } }
\* the 16-bit fields
HeadersCounts ==
    { [ DnsHeader_new EXCEPT !.id = i, !.question_count = c[1],
                             !.answer_record_count = c[2],
                             !.authority_record_count = c[3],
                             !.additional_record_count = c[4] ] :
      i \in U16Vals, c \in [1..4 -> CountVals] }
HeaderInputs == HeadersHi \cup HeadersLo \cup HeadersFlags \cup HeadersCounts

Alphabet == { Dot, LowerA, LowerA + 1 }
RECURSIVE StringsUpTo(_)
StringsUpTo(n) ==
    IF n = 0 THEN { << >> }
    ELSE LET shorter == StringsUpTo(n - 1)
         IN  shorter \cup { Append(s, c) : s \in { t \in shorter : Len(t) = n - 1 },
                                           c \in Alphabet }
Repeat(c, n) == [ i \in 1..n |-> c ]
GoogleCom == << 103, 111, 111, 103, 108, 101, 46, 99, 111, 109 >>
ExampleCom == << 101, 120, 97, 109, 112, 108, 101, 46, 99, 111, 109 >>
DotCom == << 46, 99, 111, 109 >>
NameInputs ==
    StringsUpTo(MaxNameLen)
    \cup { GoogleCom, ExampleCom,
           Repeat(LowerA, 15), Repeat(LowerA, 16),
           Repeat(LowerA, 63) \o DotCom, Repeat(LowerA, 64) \o DotCom }
QTypeVals == { 1, 28, 258 }
QClassVals == { 0, 1, 258 }

\* ------------------------------------------------------------------------
\* The codecs, called on a value
\* ------------------------------------------------------------------------
MainIdle ==
    /\ pc = "idle" /\ exit = "none" /\ inbox = << >> /\ n_client = 0
    /\ recv_buffer = << >> /\ number_of_bytes = 0 /\ source_address = "none"
    /\ default_response = DnsHeader_new
    /\ question = MainQuestionSection_new
    /\ serialized_response = << >>
    /\ outbox = << >> /\ binds = 0 /\ recvs = 0 /\ sends = 0

CodecIdle ==
    /\ hdr = DnsHeader_new /\ hdr_out = << >> /\ hdr_prev = << >> /\ n_ser = 0
    /\ domain = << >> /\ q = QuestionSection_new
    /\ label_out = << >> /\ label_prev = << >> /\ n_label = 0
    /\ label_status = "not_called" /\ labelled = FALSE
    /\ q_bytes = << >> /\ q_done = FALSE
    /\ mq = MainQuestionSection_new /\ mq_alive = FALSE /\ m_label_out = << >>

InitCodec ==
    /\ MainIdle
    /\ mode \in { "header", "question" }
    /\ hdr \in (IF mode = "header" THEN HeaderInputs ELSE { DnsHeader_new })
    /\ hdr_out = << >> /\ hdr_prev = << >> /\ n_ser = 0
    /\ domain \in (IF mode = "question" THEN NameInputs ELSE { << >> })
    /\ \E t \in (IF mode = "question" THEN QTypeVals ELSE { 1 }),
          c \in (IF mode = "question" THEN QClassVals ELSE { 0 }) :
          /\ q = [ resource_record |->
                     [ ResourceRecord_new EXCEPT !.name = domain,
                                                 !.record_type = t, !.class = c ] ]
          /\ mq = [ name |-> domain, record_type |-> t ]
    /\ label_out = << >> /\ label_prev = << >> /\ n_label = 0
    /\ label_status = "not_called" /\ labelled = FALSE
    /\ q_bytes = << >> /\ q_done = FALSE
    /\ mq_alive = (mode = "question") /\ m_label_out = << >>

\* header.serialize_to_bytes(): &self, the header is only read
HeaderSerialize ==
    /\ mode = "header" /\ n_ser < MaxCalls
    /\ hdr_prev' = hdr_out
    /\ hdr_out' = DnsHeader_serialize_to_bytes(hdr)
    /\ n_ser' = n_ser + 1
    /\ UNCHANGED << mode, hdr, domain, q, label_out, label_prev, n_label,
                    label_status, labelled, q_bytes, q_done, mq, mq_alive,
                    m_label_out, mainVars >>

\* a faulty variant of the call: the encoder stores its result in self.name
\* (what main.rs's copy does to the record it was given by value)
LibToLabelSequence_stores ==
    /\ mode = "question" /\ ~labelled /\ n_label < MaxCalls
    /\ label_prev' = label_out
    /\ label_out' = QuestionSection_to_label_sequence(q)
    /\ q' = [ q EXCEPT !.resource_record.name = QuestionSection_to_label_sequence(q) ]
    /\ label_status' = "returned"
    /\ n_label' = n_label + 1
    /\ UNCHANGED << mode, hdr, hdr_out, hdr_prev, n_ser, domain, labelled,
                    q_bytes, q_done, mq, mq_alive, m_label_out, mainVars >>

\* question.to_label_sequence() of dns.rs: &self, returns a String (there is
\* no error return), the record is only read
LibToLabelSequence ==
    /\ mode = "question" /\ ~labelled /\ n_label < MaxCalls
    /\ label_prev' = label_out
    /\ label_out' = QuestionSection_to_label_sequence(q)
    /\ label_status' = "returned"
    /\ n_label' = n_label + 1
    /\ UNCHANGED << mode, hdr, hdr_out, hdr_prev, n_ser, domain, q, labelled,
                    q_bytes, q_done, mq, mq_alive, m_label_out, mainVars >>

\* the caller stores the label sequence as the record's name: serialize_to_bytes
\* expects that "the name (which at this point should be a label)"
StoreLabelAsName ==
    /\ mode = "question" /\ n_label > 0 /\ ~labelled
    /\ q' = [ q EXCEPT !.resource_record.name = label_out ]
    /\ labelled' = TRUE
    /\ UNCHANGED << mode, hdr, hdr_out, hdr_prev, n_ser, domain, label_out,
                    label_prev, n_label, label_status, q_bytes, q_done, mq,
                    mq_alive, m_label_out, mainVars >>

\* question.serialize_to_bytes() of dns.rs: &self
QuestionSerialize ==
    /\ mode = "question" /\ labelled /\ ~q_done
    /\ q_bytes' = QuestionSection_serialize_to_bytes(q)
    /\ q_done' = TRUE
    /\ UNCHANGED << mode, hdr, hdr_out, hdr_prev, n_ser, domain, q, label_out,
                    label_prev, n_label, label_status, labelled, mq, mq_alive,
                    m_label_out, mainVars >>

\* question.to_label_sequence() of main.rs: `mut self`, the record is moved
\* into the call, its name is overwritten and returned, the record is dropped
MainToLabelSequence ==
    /\ mode = "question" /\ mq_alive
    /\ m_label_out' = MainQuestionSection_to_label_sequence(mq)
    /\ mq' = [ mq EXCEPT !.name = MainQuestionSection_to_label_sequence(mq) ]
    /\ mq_alive' = FALSE
    /\ UNCHANGED << mode, hdr, hdr_out, hdr_prev, n_ser, domain, q, label_out,
                    label_prev, n_label, label_status, labelled, q_bytes,
                    q_done, mainVars >>

NextCodec ==
    \/ HeaderSerialize
    \/ LibToLabelSequence
    \/ StoreLabelAsName
    \/ QuestionSerialize
    \/ MainToLabelSequence

SpecCodec == InitCodec /\ [][NextCodec]_vars

\* ------------------------------------------------------------------------
\* main()
\* ------------------------------------------------------------------------
\* the length of recv_buffer
RECV_BUFFER_LEN == 1024

\* the clients' addresses and the payloads they send
Addresses == { "client_a", "client_b" }
PayloadBytes == { 0, U8Max }
RECURSIVE PayloadsUpTo(_)
PayloadsUpTo(n) ==
    IF n = 0 THEN { << >> }
    ELSE LET shorter == PayloadsUpTo(n - 1)
         IN  shorter \cup { Append(s, c) : s \in { t \in shorter : Len(t) = n - 1 },
                                           c \in PayloadBytes }
Payloads == PayloadsUpTo(MaxDgramLen)

Min(a, b) == IF a < b THEN a ELSE b

\* the header main() builds: DnsHeader::new() and three assignments
MainHeader ==
    [ DnsHeader_new EXCEPT !.id = 1234, !.query_indicator = TRUE,
                           !.question_count = 1 ]

Init ==
    /\ mode = "main"
    /\ CodecIdle
    /\ pc = "start" /\ exit = "running" /\ inbox = << >> /\ n_client = 0
    /\ recv_buffer = << >> /\ number_of_bytes = 0 /\ source_address = "none"
    /\ default_response = DnsHeader_new
    /\ question = MainQuestionSection_new
    /\ serialized_response = << >>
    /\ outbox = << >> /\ binds = 0 /\ recvs = 0 /\ sends = 0

\* a client sends a datagram to 127.0.0.1:2053 while the socket is open
ClientSend ==
    /\ pc \in { "bound", "received", "serialized" }
    /\ n_client < MaxDatagrams
    /\ \E d \in Payloads, a \in Addresses :
          inbox' = Append(inbox, [ bytes |-> d, src |-> a ])
    /\ n_client' = n_client + 1
    /\ UNCHANGED << codecVars, pc, exit, recv_buffer, number_of_bytes,
                    source_address, default_response, question,
                    serialized_response, outbox, binds, recvs, sends >>

\* UdpSocket::bind("127.0.0.1:2053")? succeeds
BindOk ==
    /\ pc = "start"
    /\ pc' = "bound"
    /\ binds' = binds + 1
    /\ UNCHANGED << codecVars, exit, inbox, n_client, recv_buffer,
                    number_of_bytes, source_address, default_response,
                    question, serialized_response, outbox, recvs, sends >>

\* UdpSocket::bind fails: `?` returns the error from main
BindFail ==
    /\ pc = "start"
    /\ pc' = "exited" /\ exit' = "err_bind"
    /\ binds' = binds + 1
    /\ UNCHANGED << codecVars, inbox, n_client, recv_buffer, number_of_bytes,
                    source_address, default_response, question,
                    serialized_response, outbox, recvs, sends >>

\* socket.recv_from(&mut recv_buffer) returns a datagram, cut to the buffer
RecvOk ==
    /\ pc = "bound" /\ inbox # << >>
    /\ number_of_bytes' = Min(Len(Head(inbox).bytes), RECV_BUFFER_LEN)
    /\ recv_buffer' = SubSeq(Head(inbox).bytes, 1,
                             Min(Len(Head(inbox).bytes), RECV_BUFFER_LEN))
    /\ source_address' = Head(inbox).src
    /\ inbox' = Tail(inbox)
    /\ recvs' = recvs + 1
    /\ pc' = "received"
    /\ UNCHANGED << codecVars, exit, n_client, default_response, question,
                    serialized_response, outbox, binds, sends >>

\* socket.recv_from fails: expect("Didn't recieve data...") panics
RecvFail ==
    /\ pc = "bound"
    /\ recvs' = recvs + 1
    /\ pc' = "exited" /\ exit' = "panic_recv"
    /\ UNCHANGED << codecVars, inbox, n_client, recv_buffer, number_of_bytes,
                    source_address, default_response, question,
                    serialized_response, outbox, binds, sends >>

\* a faulty variant of the build: the request's length leaks into the id
BuildAndSerialize_echoes ==
    /\ pc = "received"
    /\ default_response' = [ MainHeader EXCEPT !.id = 1234 + number_of_bytes ]
    /\ question' = [ MainQuestionSection_new EXCEPT !.record_type = 1 ]
    /\ serialized_response' =
           DnsHeader_serialize_to_bytes(
               [ MainHeader EXCEPT !.id = 1234 + number_of_bytes ])
    /\ pc' = "serialized"
    /\ UNCHANGED << codecVars, exit, inbox, n_client, recv_buffer,
                    number_of_bytes, source_address, outbox, binds, recvs,
                    sends >>

\* the header and the question are built, the header alone is serialized
\* (and printed by display_sent_values)
BuildAndSerialize ==
    /\ pc = "received"
    /\ default_response' = MainHeader
    /\ question' = [ MainQuestionSection_new EXCEPT !.record_type = 1 ]
    /\ serialized_response' = DnsHeader_serialize_to_bytes(MainHeader)
    /\ pc' = "serialized"
    /\ UNCHANGED << codecVars, exit, inbox, n_client, recv_buffer,
                    number_of_bytes, source_address, outbox, binds, recvs,
                    sends >>

\* a faulty variant of the send: main loops back to recv_from
SendOk_loops ==
    /\ pc = "serialized"
    /\ outbox' = Append(outbox, [ bytes |-> serialized_response,
                                  dst |-> source_address ])
    /\ sends' = sends + 1
    /\ pc' = "bound"
    /\ UNCHANGED << codecVars, exit, inbox, n_client, recv_buffer,
                    number_of_bytes, source_address, default_response,
                    question, serialized_response, binds, recvs >>

\* socket.send_to(&serialized_response, source_address) succeeds; Ok(())
SendOk ==
    /\ pc = "serialized"
    /\ outbox' = Append(outbox, [ bytes |-> serialized_response,
                                  dst |-> source_address ])
    /\ sends' = sends + 1
    /\ pc' = "exited" /\ exit' = "ok"
    /\ UNCHANGED << codecVars, inbox, n_client, recv_buffer, number_of_bytes,
                    source_address, default_response, question,
                    serialized_response, binds, recvs >>

\* a faulty variant of the failed send: the send is tried again
SendFail_retries ==
    /\ pc = "serialized" /\ sends <= MaxCalls
    /\ sends' = sends + 1
    /\ UNCHANGED << codecVars, pc, exit, inbox, n_client, recv_buffer,
                    number_of_bytes, source_address, default_response,
                    question, serialized_response, outbox, binds, recvs >>

\* socket.send_to fails: expect("Couldn't send data") panics
SendFail ==
    /\ pc = "serialized"
    /\ sends' = sends + 1
    /\ pc' = "exited" /\ exit' = "panic_send"
    /\ UNCHANGED << codecVars, inbox, n_client, recv_buffer, number_of_bytes,
                    source_address, default_response, question,
                    serialized_response, outbox, binds, recvs >>

Next ==
    \/ ClientSend
    \/ BindOk
    \/ BindFail
    \/ RecvOk
    \/ RecvFail
    \/ BuildAndSerialize
    \/ SendOk
    \/ SendFail

Spec == Init /\ [][Next]_vars

\* main() runs on one thread: a call that can return does return, and
\* recv_from returns once a datagram is queued (unless it fails first)
FairSpec ==
    /\ Spec
    /\ WF_vars(BindOk \/ BindFail)
    /\ WF_vars(RecvOk)
    /\ WF_vars(BuildAndSerialize)
    /\ WF_vars(SendOk \/ SendFail)

\* ------------------------------------------------------------------------
\* Reference encodings the properties compare the code with
\* ------------------------------------------------------------------------
\* the wire layout of a header, written with sums and products
WireHeader(h) ==
    << h.id \div 256, h.id % 256,
       BoolAsU8(h.query_indicator) * 128 + h.opcode * 8
         + BoolAsU8(h.authoritative_answer) * 4 + BoolAsU8(h.truncation) * 2
         + BoolAsU8(h.recursion_desired),
       BoolAsU8(h.recursion_available) * 128 + BoolAsU8(h.reserved) * 64
         + BoolAsU8(h.authentic_data) * 32 + BoolAsU8(h.check_disabled) * 16
         + h.response_code,
       h.question_count \div 256, h.question_count % 256,
       h.answer_record_count \div 256, h.answer_record_count % 256,
       h.authority_record_count \div 256, h.authority_record_count % 256,
       h.additional_record_count \div 256, h.additional_record_count % 256 >>

\* bit k of a byte, as 0 or 1
Bit(byte, k) == (byte \div Pow2(k)) % 2

\* the labels of a dotted name: the maximal runs between dots
RECURSIVE LabelsFrom(_, _, _)
LabelsFrom(s, i, cur) ==
    IF i > Len(s) THEN << cur >>
    ELSE IF s[i] = 46 THEN << cur >> \o LabelsFrom(s, i + 1, << >>)
    ELSE LabelsFrom(s, i + 1, Append(cur, s[i]))
Labels(s) == LabelsFrom(s, 1, << >>)

\* the wire layout of a name: per label one raw length octet and the label's
\* bytes, then one zero octet
RECURSIVE WireLabels(_, _)
WireLabels(ls, i) ==
    IF i > Len(ls) THEN << 0 >>
    ELSE << Len(ls[i]) >> \o ls[i] \o WireLabels(ls, i + 1)
WireName(s) == WireLabels(Labels(s), 1)

LongestLabel(s) ==
    CHOOSE n \in 0..Len(s) :
        /\ \E i \in 1..Len(Labels(s)) : Len(Labels(s)[i]) = n
        /\ \A i \in 1..Len(Labels(s)) : Len(Labels(s)[i]) <= n

\* a dotted name all of whose labels have between 1 and 63 bytes
WellFormed(s) ==
    \A i \in 1..Len(Labels(s)) :
        Len(Labels(s)[i]) >= 1 /\ Len(Labels(s)[i]) <= 63

\* consecutive delimiters, or an empty input
HasEmptyLabel(s) ==
    \/ s = << >>
    \/ \E i \in 1..(Len(s) - 1) : s[i] = 46 /\ s[i + 1] = 46

\* the question records found in a packet after its 12 header bytes
RECURSIVE NameEnd(_, _)
NameEnd(b, p) ==
    IF p > Len(b) THEN 0
    ELSE IF b[p] = 0 THEN p + 1
    ELSE NameEnd(b, p + 1 + b[p])
RECURSIVE QuestionsFrom(_, _)
QuestionsFrom(b, p) ==
    IF p > Len(b) \/ NameEnd(b, p) = 0 \/ NameEnd(b, p) + 3 > Len(b) THEN 0
    ELSE 1 + QuestionsFrom(b, NameEnd(b, p) + 4)
QuestionRecordsIn(b) == QuestionsFrom(b, DNS_HEADER_LEN + 1)
QdCountOf(b) == b[5] * 256 + b[6]

\* ------------------------------------------------------------------------
\* Properties
\* ------------------------------------------------------------------------

\* C1: for every header whose opcode and response_code are in 0..15,
\* serialize_to_bytes returns exactly the 12 bytes of the wire layout (id,
\* QR*128 + opcode*8 + AA*4 + TC*2 + RD, RA*128 + Z*64 + AD*32 + CD*16 +
\* rcode, the four counts, all big-endian); the header main builds
\* serializes to 04 D2 80 00 00 01 00 00 00 00 00 00.
C1_HeaderBytes ==
    (mode = "header" /\ n_ser > 0) =>
        /\ (hdr.opcode <= 15 /\ hdr.response_code <= 15) =>
               (hdr_out = WireHeader(hdr) /\ Len(hdr_out) = 12)
        /\ hdr = MainHeader =>
               hdr_out = << 4, 210, 128, 0, 0, 1, 0, 0, 0, 0, 0, 0 >>

C1_Witness ==
    /\ mode = "header" /\ n_ser > 0
    /\ hdr = MainHeader
    /\ hdr_out = << 4, 210, 128, 0, 0, 1, 0, 0, 0, 0, 0, 0 >>

\* C2: for every opcode and response_code in 0..255 the serialized header
\* has 12 bytes, bit 7 of byte 2 equals query_indicator and bits 7, 6, 5, 4
\* of byte 3 equal recursion_available, reserved, authentic_data and
\* check_disabled.
C2_BitRanges ==
    (mode = "header" /\ n_ser > 0) =>
        /\ Len(hdr_out) = 12
        /\ Bit(hdr_out[3], 7) = BoolAsU8(hdr.query_indicator)
        /\ Bit(hdr_out[4], 7) = BoolAsU8(hdr.recursion_available)
        /\ Bit(hdr_out[4], 6) = BoolAsU8(hdr.reserved)
        /\ Bit(hdr_out[4], 5) = BoolAsU8(hdr.authentic_data)
        /\ Bit(hdr_out[4], 4) = BoolAsU8(hdr.check_disabled)

\* C3: to_label_sequence returns, for each label in order, one raw length
\* octet and the label's bytes, and then one zero byte ("google.com" gives
\* 06 google 03 com 00, 12 bytes), in dns.rs and in main.rs.
C3_RawOctets ==
    /\ (mode = "question" /\ WellFormed(domain) /\ n_label > 0) =>
           label_out = WireName(domain)
    /\ (mode = "question" /\ WellFormed(domain) /\ ~mq_alive) =>
           m_label_out = WireName(domain)
    /\ (mode = "question" /\ domain = GoogleCom /\ n_label > 0) =>
           label_out = << 6, 103, 111, 111, 103, 108, 101, 3, 99, 111, 109, 0 >>

\* C4: encoding a name with a label of 64 bytes (or more) fails with a
\* label-too-long error and returns no encoded output; a name whose longest
\* label has exactly 63 bytes is encoded.
C4_LabelLimit ==
    (mode = "question" /\ n_label > 0) =>
        /\ LongestLabel(domain) >= 64 =>
               (label_status = "label_too_long" /\ label_out = << >>)
        /\ LongestLabel(domain) = 63 => label_status = "returned"

\* C5: encoding an input with consecutive dots, or an empty input, fails
\* with an empty-label error; no zero-length label is emitted.
C5_EmptyLabel ==
    (mode = "question" /\ n_label > 0 /\ HasEmptyLabel(domain)) =>
        (label_status = "empty_label" /\ label_out = << >>)

\* C6: in every packet the program sends, the header's question count
\* equals the number of question records that follow the 12 header bytes.
C6_CountConsistency ==
    \A i \in 1..Len(outbox) :
        QdCountOf(outbox[i].bytes) = QuestionRecordsIn(outbox[i].bytes)

\* C7: a serialized question is the wire-encoded name (length octets,
\* labels, root zero), then the type and the class as 16-bit big-endian
\* integers, so it is 4 bytes longer than the encoded name; for
\* "example.com", type 1, class 1, header and question are 30 bytes.
C7_QuestionBytes ==
    (mode = "question" /\ WellFormed(domain) /\ q_done) =>
        /\ q_bytes = WireName(domain)
                     \o << q.resource_record.record_type \div 256,
                           q.resource_record.record_type % 256,
                           q.resource_record.class \div 256,
                           q.resource_record.class % 256 >>
        /\ Len(q_bytes) = Len(WireName(domain)) + 4
        /\ (domain = ExampleCom /\ q.resource_record.record_type = 1
              /\ q.resource_record.class = 1) =>
               12 + Len(q_bytes) = 30

\* C8: one run is one receive / serialize / send cycle: at most one
\* datagram is received and at most one sent, nothing is sent before
\* recv_from has returned, the datagram is sent to the source address of
\* the received one, after the send the process has ended with success and
\* receives nothing more; and if a datagram arrives and no I/O call fails,
\* the process ends with success.
C8_Inv ==
    /\ recvs <= 1 /\ sends <= 1 /\ Len(outbox) <= 1
    /\ sends > 0 => (recvs = 1 /\ pc \notin { "start", "bound", "received" })
    /\ outbox # << >> =>
           /\ outbox[1].dst = source_address /\ source_address \in Addresses
           /\ pc = "exited" /\ exit = "ok"
    /\ exit = "ok" => (recvs = 1 /\ sends = 1 /\ Len(outbox) = 1)

C8_Step ==
    /\ (recvs' > recvs /\ pc' = "received") =>
           (inbox # << >> /\ source_address' = Head(inbox).src)
    /\ Len(outbox') > Len(outbox) =>
           (pc = "serialized" /\ outbox'[Len(outbox')].dst = source_address)
    /\ pc = "exited" =>
           (pc' = pc /\ exit' = exit /\ recvs' = recvs /\ sends' = sends
              /\ outbox' = outbox)

NoIoFailure == exit \notin { "err_bind", "panic_recv", "panic_send" }

\* C8, as one formula: the invariant, the step property and the liveness part
C8_OneCycle ==
    /\ []C8_Inv
    /\ [][C8_Step]_vars
    /\ (<>(inbox # << >>) /\ []NoIoFailure) => <>(pc = "exited" /\ exit = "ok")

C8_Witness ==
    /\ pc = "exited" /\ exit = "ok"
    /\ recvs = 1 /\ sends = 1
    /\ outbox = << [ bytes |-> serialized_response, dst |-> "client_b" ] >>
    /\ inbox # << >> /\ Head(inbox).src = "client_a"

\* C9: transport errors are fatal and not retried: bind, recv_from and
\* send_to are each called at most once; after a failed bind nothing is
\* received or sent, after a failed receive nothing is sent, a failed send
\* is not repeated; a failed call ends the process in a failure state that
\* it never leaves, and the success status is returned only after bind,
\* receive and send all succeeded.
C9_Inv ==
    /\ binds <= 1 /\ recvs <= 1 /\ sends <= 1
    /\ exit = "err_bind" => (binds = 1 /\ recvs = 0 /\ sends = 0 /\ outbox = << >>)
    /\ exit = "panic_recv" => (recvs = 1 /\ sends = 0 /\ outbox = << >>)
    /\ exit = "panic_send" => (sends = 1 /\ outbox = << >>)
    /\ exit # "running" <=> pc = "exited"
    /\ exit = "ok" =>
           /\ binds = 1 /\ recvs = 1 /\ sends = 1
           /\ source_address \in Addresses
           /\ Len(outbox) = 1

C9_Step ==
    /\ (sends' > sends /\ outbox' = outbox) => exit' = "panic_send"
    /\ (recvs' > recvs /\ pc' # "received") => exit' = "panic_recv"
    /\ (binds' > binds /\ pc' # "bound") => exit' = "err_bind"
    /\ exit \in { "err_bind", "panic_recv", "panic_send" } =>
           (exit' = exit /\ binds' = binds /\ recvs' = recvs /\ sends' = sends
              /\ outbox' = outbox)

\* C9, as one formula: the invariant and the step property
C9_FatalErrors == []C9_Inv /\ [][C9_Step]_vars

C9_Witness ==
    /\ pc = "exited" /\ exit = "panic_send"
    /\ binds = 1 /\ recvs = 1 /\ sends = 1 /\ outbox = << >>

\* C10: serializing the same header twice, or label-encoding the same name
\* twice, returns the same bytes, and a call leaves every field of the
\* header or of the question record as it was.
C10_Repeat ==
    /\ n_ser >= 2 => hdr_out = hdr_prev
    /\ n_label >= 2 => label_out = label_prev

C10_Frame ==
    /\ n_ser' > n_ser => hdr' = hdr
    /\ n_label' > n_label => q' = q

====
